---- MODULE Spec2Model ----
(***************************************************************************)
(* Random region construction of pysal/region/randomregion.py.             *)
(*                                                                         *)
(* Random_Regions (the batch driver) builds `permutations` Random_Region   *)
(* instances.  A Random_Region permutes the universe, validates its        *)
(* arguments, and dispatches to the slicer (build_noncontig_regions) or to *)
(* the seed-and-grow builder (build_contig_regions).  Every draw from a    *)
(* random source is a nondeterministic choice over the values the source   *)
(* can return.                                                             *)
(***************************************************************************)
EXTENDS Integers, Sequences, FiniteSets, TLC

(***************************************************************************)
(* Bounds of the model.                                                    *)
(***************************************************************************)
MaxN == 4

MaxIter == 2

MaxPermutations == 2

(***************************************************************************)
(* Python values.  An optional argument is <<>> (None) or <<v>>.           *)
(***************************************************************************)
None == <<>>

Some(v) == <<v>>

\* `if num_regions`: None and 0 are false
truthy_num(x) == x # None /\ x[1] # 0

\* `if cardinality`: None and the empty list are false
truthy_list(x) == x # None /\ x[1] # <<>>

\* `if contiguity`: None is false
truthy_obj(x) == x # None

Range(s) == {s[i] : i \in 1..Len(s)}

RECURSIVE sum(_)
sum(s) == IF s = <<>> THEN 0 ELSE s[1] + sum(Tail(s))

\* list.pop(i), i counted from 1 here
PopAt(s, i) == SubSeq(s, 1, i - 1) \o SubSeq(s, i + 1, Len(s))

\* list.remove(x): drops the first occurrence of x
ListRemove(s, x) ==
    LET k == CHOOSE i \in 1..Len(s) : s[i] = x /\ \A j \in 1..(i - 1) : s[j] # x
    IN  PopAt(s, k)

\* [i for i in s if i in keep]
FilterIn(s, keep) == SelectSeq(s, LAMBDA x : x \in keep)

InsertSorted(s, x) ==
    LET k == Cardinality({i \in 1..Len(s) : s[i] <= x})
    IN  SubSeq(s, 1, k) \o <<x>> \o SubSeq(s, k + 1, Len(s))

\* list.sort(): ascending
RECURSIVE ListSort(_)
ListSort(s) ==
    IF Len(s) <= 1 THEN s
    ELSE InsertSorted(ListSort(SubSeq(s, 1, Len(s) - 1)), s[Len(s)])

\* list(a_set) followed by sort()
RECURSIVE SortedList(_)
SortedList(S) ==
    IF S = {} THEN <<>>
    ELSE LET m == CHOOSE x \in S : \A y \in S : x <= y
         IN  <<m>> \o SortedList(S \ {m})

\* ids[a:b] with 0 <= a <= b <= len(ids), Python offsets
Slice(s, a, b) == SubSeq(s, a + 1, b)

(***************************************************************************)
(* The random sources.                                                     *)
(***************************************************************************)
\* np.random.permutation(x): every reordering of x
np_random_permutation(x) ==
    {[i \in 1..Len(x) |-> x[p[i]]] : p \in Permutations(1..Len(x))}

\* np.random.random_integers(lo, hi): lo..hi inclusive
np_random_integers(lo, hi) == lo..hi

\* random.randint(lo, hi): lo..hi inclusive
random_randint(lo, hi) == lo..hi

(***************************************************************************)
(* Pure helpers of Random_Region.                                          *)
(***************************************************************************)
\* get_num_regions: the values the draw can return
get_num_regions(nn) == np_random_integers(2, nn)

\* a variant without the segment after the last break
breaks2cards_open(brk, start, nn) ==
    [i \in 1..Len(brk) |-> brk[i] - (IF i = 1 THEN start ELSE brk[i - 1])]

\* get_cards, after get_region_breaks has returned region_breaks
RECURSIVE breaks2cards(_, _, _)
breaks2cards(brk, start, nn) ==
    IF brk = <<>> THEN <<nn - start>>
    ELSE <<brk[1] - start>> \o breaks2cards(Tail(brk), brk[1], nn)

RECURSIVE prefix_sums(_, _)
prefix_sums(cs, break_point) ==
    IF cs = <<>> THEN <<>>
    ELSE <<break_point + cs[1]>> \o prefix_sums(Tail(cs), break_point + cs[1])

\* cards2breaks: running sums of cards, the last one dropped
cards2breaks(cs) ==
    LET all == prefix_sums(cs, 0) IN SubSeq(all, 1, Len(all) - 1)

\* build_noncontig_regions: ids cut at region_breaks
RECURSIVE build_noncontig_regions(_, _, _)
build_noncontig_regions(idl, brk, start) ==
    IF brk = <<>> THEN <<Slice(idl, start, Len(idl))>>
    ELSE <<Slice(idl, start, brk[1])>> \o build_noncontig_regions(idl, Tail(brk), brk[1])

(***************************************************************************)
(* Inputs: universes 1..N and spatial weights objects over them.           *)
(***************************************************************************)
Universe(N) == [i \in 1..N |-> i]

Reversed(s) == [i \in 1..Len(s) |-> s[Len(s) + 1 - i]]

NoEdges(N) == {}

PathEdges(N) == {{i, i + 1} : i \in 1..(N - 1)}

\* two components: {1,2} and a path on 3..N
SplitEdges(N) == PathEdges(N) \ {{2, 3}}

CompleteEdges(N) == {{i, j} : i, j \in 1..N} \ {{i} : i \in 1..N}

\* a weights object: id_order and a symmetric neighbors relation
W(order, N, E) ==
    [id_order |-> order,
     neighbors |-> [i \in 1..N |-> SortedList({j \in 1..N : j # i /\ {i, j} \in E})]]

Graphs(N) == {NoEdges(N), PathEdges(N), SplitEdges(N), CompleteEdges(N)}

\* every ordered list of positive sizes summing to N
Compositions(N) ==
    {c \in UNION {[1..k -> 1..N] : k \in 1..N} : sum(c) = N}

\* (num_regions, cardinality) pairs for a universe of N areas
CountCardPairs(N) ==
    ({None} \cup {Some(k) : k \in 0..(N + 1)}) \X {None}
    \cup UNION {{<<None, Some(c)>>, <<Some(Len(c)), Some(c)>>} : c \in Compositions(N)}
    \cup {<<None, Some(<<>>)>>, <<Some(0), Some(<<1, N - 1>>)>>,
          <<Some(1), Some(<<1, N - 1>>)>>,
          <<None, Some(<<1, N>>)>>, <<Some(2), Some(<<1, N>>)>>,
          <<Some(3), Some(<<N - 1>>)>>}

Contiguities(N) ==
    {None} \cup {Some(W(Universe(N), N, E)) : E \in Graphs(N)}
    \cup {Some(W(Reversed(Universe(N)), N, PathEdges(N)))}

\* inputs of one Random_Region call on a universe of N areas
InputsFor(N) ==
    {[area_ids |-> Universe(N), num_regions |-> nc[1], cardinality |-> nc[2],
      contiguity |-> w, maxiter |-> IF w = None THEN MaxIter ELSE mi] :
        nc \in CountCardPairs(N), w \in Contiguities(N), mi \in 0..MaxIter}

\* the largest universe: sizes given, or a count given, or neither; no
\* contiguity, or one of three graphs searched with the full maxiter
LargeInputs ==
    LET N == MaxN IN
    {[area_ids |-> Universe(N), num_regions |-> nc[1], cardinality |-> nc[2],
      contiguity |-> w, maxiter |-> MaxIter] :
        nc \in ({None} \cup {Some(k) : k \in 1..N}) \X {None}
               \cup {<<None, Some(c)>> : c \in Compositions(N)},
        w \in {None} \cup {Some(W(Universe(N), N, E)) :
                             E \in {NoEdges(N), PathEdges(N), SplitEdges(N)}}}

TrialInputs == UNION {InputsFor(N) : N \in 2..(MaxN - 1)} \cup LargeInputs

\* a larger universe, two components, sizes that only fit by substitution
DeepInputs ==
    LET N == MaxN + 1 IN
    {[area_ids |-> Universe(N), num_regions |-> None,
      cardinality |-> Some(<<2, N - 2>>),
      contiguity |-> Some(W(Universe(N), N, SplitEdges(N))), maxiter |-> 1]}

\* a single edge, between the last two areas; every other area is isolated
TailEdges(N) == {{N - 1, N}}

\* the largest universe with that graph: every list of sizes, one attempt
SparseInputs ==
    LET N == MaxN IN
    {[area_ids |-> Universe(N), num_regions |-> None, cardinality |-> Some(c),
      contiguity |-> Some(W(Universe(N), N, TailEdges(N))), maxiter |-> 1] :
        c \in Compositions(N)}

(***************************************************************************)
(* State.                                                                  *)
(***************************************************************************)
VARIABLES
    \* arguments of Random_Regions / Random_Region: the caller's objects, and
    \* (given) what area_ids and cardinality held when they were passed
    area_ids, num_regions, cardinality, contiguity, maxiter, permutations, given,
    \* Random_Regions
    solutions, solutions_feas, fi,
    \* the Random_Region under construction: self.n, self.ids, self.regions,
    \* self.feasible
    n, ids, self_regions, feasible,
    \* locals of __init__ and of the samplers
    K, cards_arg, break_set, region_breaks, ret,
    \* locals of build_contig_regions
    iter, regions, cards, candidates, seed_test, building, seed, region,
    potential, test_card,
    \* position in the code, and the exception that left it
    pc, raised,
    \* history of the current call: draws from the random sources, attempts
    \* started, positions in regions of the regions accepted at a stalled
    \* size, and what the last attempt allowed by maxiter had accepted when
    \* it was given up
    permDraws, intDrawn, idxDrawn, attempts, rescued, abandoned

inputVars == <<area_ids, num_regions, cardinality, contiguity, maxiter, permutations,
               given>>

batchVars == <<solutions, solutions_feas, fi>>

selfVars == <<n, ids, self_regions, feasible>>

planVars == <<K, cards_arg, break_set, region_breaks, ret>>

contigVars == <<iter, regions, cards, candidates, seed_test, building, seed,
                region, potential, test_card>>

histVars == <<permDraws, intDrawn, idxDrawn, attempts, rescued, abandoned>>

vars == <<inputVars, batchVars, selfVars, planVars, contigVars, pc, raised, histVars>>

\* the state before any Random_Region call, for the given arguments
Start(inp, perms) ==
    /\ area_ids = inp.area_ids
    /\ num_regions = inp.num_regions
    /\ cardinality = inp.cardinality
    /\ contiguity = inp.contiguity
    /\ maxiter = inp.maxiter
    /\ permutations = perms
    /\ given = [area_ids |-> inp.area_ids, cardinality |-> inp.cardinality]
    /\ solutions = <<>> /\ solutions_feas = <<>> /\ fi = 0
    /\ n = 0 /\ ids = <<>> /\ self_regions = <<>> /\ feasible = TRUE
    /\ K = 0 /\ cards_arg = <<>> /\ break_set = {} /\ region_breaks = <<>>
    /\ ret = "none"
    /\ iter = 0 /\ regions = <<>> /\ cards = <<>> /\ candidates = <<>>
    /\ seed_test = 0 /\ building = FALSE /\ seed = 0 /\ region = <<>>
    /\ potential = <<>> /\ test_card = 0
    /\ pc = "batch" /\ raised = "none"
    /\ permDraws = 0 /\ intDrawn = FALSE /\ idxDrawn = FALSE /\ attempts = 0
    /\ rescued = {} /\ abandoned = <<>>

\* one Random_Region call
Init == \E inp \in TrialInputs \cup DeepInputs \cup SparseInputs : Start(inp, 1)

\* a Random_Regions batch of 0..MaxPermutations trials on a universe of three
\* areas, with the count and the sizes drawn: no contiguity, or any of the
\* contiguities searched with maxiter = 1 (on the edgeless one a trial is
\* feasible or not by the drawn count)
BatchInputs ==
    {inp \in InputsFor(3) :
        /\ inp.num_regions = None /\ inp.cardinality = None
        /\ (inp.contiguity = None \/ inp.maxiter = 1)}

InitBatch ==
    \E inp \in BatchInputs, perms \in 0..MaxPermutations : Start(inp, perms)

(***************************************************************************)
(* Random_Regions.__init__                                                 *)
(***************************************************************************)
\* for i in range(permutations): solutions.append(Random_Region(...))
BatchLoop ==
    /\ pc = "batch"
    /\ IF Len(solutions) < permutations
       THEN pc' = "init" /\ UNCHANGED batchVars
       ELSE pc' = "filter" /\ solutions_feas' = <<>> /\ fi' = 1
            /\ UNCHANGED solutions
    /\ UNCHANGED <<inputVars, selfVars, planVars, contigVars, raised, histVars>>

\* a variant that puts a feasible instance in front
FilterStep_front(sols, feas, i) ==
    IF sols[i].feasible = TRUE THEN <<sols[i]>> \o feas ELSE feas

\* for i in solutions: if i.feasible == True: solutions_feas.append(i)
FilterStep(sols, feas, i) ==
    IF sols[i].feasible = TRUE THEN Append(feas, sols[i]) ELSE feas

BatchFilter ==
    /\ pc = "filter"
    /\ IF fi <= Len(solutions)
       THEN /\ solutions_feas' = FilterStep(solutions, solutions_feas, fi)
            /\ fi' = fi + 1
            /\ pc' = "filter"
       ELSE pc' = "done" /\ UNCHANGED <<solutions_feas, fi>>
    /\ UNCHANGED <<inputVars, solutions, selfVars, planVars, contigVars, raised,
                   histVars>>

(***************************************************************************)
(* Random_Region.__init__                                                  *)
(***************************************************************************)
\* self.n, self.ids (a random permutation), self.regions, self.feasible
RegionInit ==
    /\ pc = "init"
    /\ n' = Len(area_ids)
    /\ \E p \in np_random_permutation(area_ids) : ids' = p
    /\ self_regions' = <<>>
    /\ feasible' = TRUE
    /\ permDraws' = 1 /\ intDrawn' = FALSE /\ idxDrawn' = FALSE
    /\ attempts' = 0 /\ rescued' = {} /\ abandoned' = <<>>
    /\ pc' = "validate"
    /\ UNCHANGED <<inputVars, batchVars, planVars, contigVars, raised>>

\* a variant without the test of num_regions against len(cardinality)
ValidationError_two(ids_in, nregs, card, w, nn) ==
    IF truthy_list(card) /\ nn # sum(card[1])
    THEN "number of areas does not match cardinality"
    ELSE IF truthy_obj(w) /\ ids_in # w[1].id_order
    THEN "order of area_ids must match order in contiguity"
    ELSE "none"

\* tests for input argument consistency: the first failing test raises
ValidationError(ids_in, nregs, card, w, nn) ==
    IF truthy_list(card) /\ nn # sum(card[1])
    THEN "number of areas does not match cardinality"
    ELSE IF truthy_obj(w) /\ ids_in # w[1].id_order
    THEN "order of area_ids must match order in contiguity"
    ELSE IF truthy_num(nregs) /\ truthy_list(card) /\ nregs[1] # Len(card[1])
    THEN "number of regions does not match cardinality"
    ELSE "none"

Validate ==
    /\ pc = "validate"
    /\ LET err == ValidationError(area_ids, num_regions, cardinality, contiguity, n)
       IN  IF err # "none"
           THEN feasible' = FALSE /\ raised' = err /\ pc' = "raised"
           ELSE pc' = "dispatch" /\ UNCHANGED <<feasible, raised>>
    /\ UNCHANGED <<inputVars, batchVars, n, ids, self_regions, planVars,
                   contigVars, histVars>>

\* a variant that takes the number of areas for the number of regions
ImpliedCount_sum(card) == sum(card)

\* num_regions = len(cardinality)
ImpliedCount(card) == Len(card)

\* the branch of the dispatch taken for the given arguments: the builder or
\* sampler called first (next), the caller of the sampler (ret), and the
\* arguments handed on; K = 0 stands for a count still to be drawn
DispatchMode(nregs, card, w) ==
    LET nr == truthy_num(nregs)
        cd == truthy_list(card)
        cg == truthy_obj(w)
        mode(nx, rt, k, cs, brk) ==
            [next |-> nx, ret |-> rt, K |-> k, cards_arg |-> cs, region_breaks |-> brk]
    IN  IF nr /\ cd /\ cg THEN mode("contig", "none", nregs[1], card[1], <<>>)
        ELSE IF nr /\ cd
             THEN mode("noncontig", "none", nregs[1], <<>>, cards2breaks(card[1]))
        ELSE IF nr /\ cg THEN mode("breaks", "get_cards", nregs[1], <<>>, <<>>)
        ELSE IF cd /\ cg THEN mode("contig", "none", ImpliedCount(card[1]), card[1], <<>>)
        ELSE IF nr THEN mode("breaks", "noncontig", nregs[1], <<>>, <<>>)
        ELSE IF cd
             THEN mode("noncontig", "none", ImpliedCount(card[1]), <<>>,
                       cards2breaks(card[1]))
        ELSE IF cg THEN mode("breaks", "get_cards", 0, <<>>, <<>>)
        ELSE mode("breaks", "noncontig", 0, <<>>, <<>>)

\* dispatches the appropriate algorithm
Dispatch ==
    /\ pc = "dispatch"
    /\ LET nr == truthy_num(num_regions)
           cd == truthy_list(cardinality)
           cg == truthy_obj(contiguity)
       IN  IF nr /\ cd /\ cg THEN
               /\ K' = num_regions[1] /\ cards_arg' = cardinality[1]
               /\ pc' = "contig" /\ UNCHANGED <<region_breaks, ret, intDrawn>>
           ELSE IF nr /\ cd THEN
               /\ K' = num_regions[1] /\ region_breaks' = cards2breaks(cardinality[1])
               /\ pc' = "noncontig" /\ UNCHANGED <<cards_arg, ret, intDrawn>>
           ELSE IF nr /\ cg THEN
               /\ K' = num_regions[1] /\ ret' = "get_cards"
               /\ pc' = "breaks" /\ UNCHANGED <<cards_arg, region_breaks, intDrawn>>
           ELSE IF cd /\ cg THEN
               /\ K' = ImpliedCount(cardinality[1]) /\ cards_arg' = cardinality[1]
               /\ pc' = "contig" /\ UNCHANGED <<region_breaks, ret, intDrawn>>
           ELSE IF nr THEN
               /\ K' = num_regions[1] /\ ret' = "noncontig"
               /\ pc' = "breaks" /\ UNCHANGED <<cards_arg, region_breaks, intDrawn>>
           ELSE IF cd THEN
               /\ K' = ImpliedCount(cardinality[1])
               /\ region_breaks' = cards2breaks(cardinality[1])
               /\ pc' = "noncontig" /\ UNCHANGED <<cards_arg, ret, intDrawn>>
           ELSE IF cg THEN
               /\ \E k \in get_num_regions(n) : K' = k
               /\ ret' = "get_cards" /\ intDrawn' = TRUE
               /\ pc' = "breaks" /\ UNCHANGED <<cards_arg, region_breaks>>
           ELSE
               /\ \E k \in get_num_regions(n) : K' = k
               /\ ret' = "noncontig" /\ intDrawn' = TRUE
               /\ pc' = "breaks" /\ UNCHANGED <<cards_arg, region_breaks>>
    /\ break_set' = {}
    /\ UNCHANGED <<inputVars, batchVars, selfVars, contigVars, raised,
                   permDraws, idxDrawn, attempts, rescued, abandoned>>

(***************************************************************************)
(* Samplers and the slicer.                                                *)
(***************************************************************************)
\* get_region_breaks: one pass of `while len(region_breaks) < num_regions-1`,
\* and after the loop list(region_breaks).sort()
GetRegionBreaks ==
    /\ pc = "breaks"
    /\ IF Cardinality(break_set) < K - 1
       THEN /\ \E r \in np_random_integers(1, n - 1) : break_set' = break_set \cup {r}
            /\ intDrawn' = TRUE
            /\ pc' = "breaks"
            /\ UNCHANGED region_breaks
       ELSE /\ region_breaks' = SortedList(break_set)
            /\ pc' = ret
            /\ UNCHANGED <<break_set, intDrawn>>
    /\ UNCHANGED <<inputVars, batchVars, selfVars, K, cards_arg, ret, contigVars,
                   raised, permDraws, idxDrawn, attempts, rescued, abandoned>>

\* get_cards: segment lengths between the breaks
GetCards ==
    /\ pc = "get_cards"
    /\ cards_arg' = breaks2cards(region_breaks, 0, n)
    /\ pc' = "contig"
    /\ UNCHANGED <<inputVars, batchVars, selfVars, K, break_set, region_breaks,
                   ret, contigVars, raised, histVars>>

\* build_noncontig_regions
BuildNoncontig ==
    /\ pc = "noncontig"
    /\ self_regions' = self_regions \o build_noncontig_regions(ids, region_breaks, 0)
    /\ pc' = "return"
    /\ UNCHANGED <<inputVars, batchVars, n, ids, feasible, planVars, contigVars,
                   raised, histVars>>

(***************************************************************************)
(* build_contig_regions                                                    *)
(***************************************************************************)
Neighbors(a) == contiguity[1].neighbors[a]

\* iter = 0; regions = []; self.feasible = False
ContigEnter ==
    /\ pc = "contig"
    /\ iter' = 0 /\ regions' = <<>> /\ feasible' = FALSE
    /\ pc' = "outer"
    /\ UNCHANGED <<inputVars, batchVars, n, ids, self_regions, planVars, cards,
                   candidates, seed_test, building, seed, region, potential,
                   test_card, raised, histVars>>

\* a variant that sorts the list passed in instead of a copy of it
CopyThenSort_inplace(card) == ListSort(card)

\* cards = copy.copy(cardinality); cards.sort(): what the list passed in
\* holds afterwards; the copy is sorted, the list itself is left as it was
CopyThenSort(card) == card

\* while iter < maxiter: start an attempt; after the loop self.regions = regions.
\* When the caller gave a cardinality, the list passed to the builder is the
\* caller's own list.
OuterLoop ==
    /\ pc = "outer"
    /\ IF iter < maxiter
       THEN /\ cards' = ListSort(cards_arg)
            /\ cards_arg' = CopyThenSort(cards_arg)
            /\ cardinality' = IF truthy_list(cardinality)
                              THEN Some(CopyThenSort(cards_arg)) ELSE cardinality
            /\ candidates' = ids
            /\ seed_test' = 0
            /\ attempts' = attempts + 1
            /\ pc' = "inner"
            /\ UNCHANGED self_regions
       ELSE /\ self_regions' = regions
            /\ pc' = "return"
            /\ UNCHANGED <<cards, cards_arg, cardinality, candidates, seed_test,
                           attempts>>
    /\ UNCHANGED <<area_ids, num_regions, contiguity, maxiter, permutations, given,
                   batchVars, n, ids, feasible, K, break_set, region_breaks, ret,
                   iter, regions, building, seed, region, potential, test_card,
                   raised, permDraws, intDrawn, idxDrawn, rescued, abandoned>>

\* a variant that starts from every candidate, adjacent or not
InitialPotential_all(sd, cand) == cand

\* potential = [i for i in w.neighbors[seed] if i in candidates]
InitialPotential(sd, cand) == FilterIn(Neighbors(sd), Range(cand))

\* a variant that reads the last size and leaves it in cards
PopLast_keep(cs) == cs

\* what cards.pop() leaves in cards
PopLast(cs) == SubSeq(cs, 1, Len(cs) - 1)

\* while candidates and seed_test < num_regions - len(regions): draw a seed
InnerLoop ==
    /\ pc = "inner"
    /\ IF candidates # <<>> /\ seed_test < K - Len(regions)
       THEN /\ building' = TRUE
            /\ seed' = Head(candidates)
            /\ candidates' = Tail(candidates)
            /\ region' = <<Head(candidates)>>
            /\ potential' = InitialPotential(Head(candidates), Tail(candidates))
            /\ IF cards = <<>>
               THEN /\ raised' = "pop from empty list" /\ pc' = "raised"
                    /\ UNCHANGED <<cards, test_card>>
               ELSE /\ test_card' = cards[Len(cards)]
                    /\ cards' = PopLast(cards)
                    /\ pc' = "grow"
                    /\ UNCHANGED raised
       ELSE /\ pc' = "attempt_end"
            /\ UNCHANGED <<building, seed, candidates, region, potential, cards,
                           test_card, raised>>
    /\ UNCHANGED <<inputVars, batchVars, selfVars, planVars, iter, regions,
                   seed_test, histVars>>

\* a variant that offers every free candidate, adjacent or not
ExtendPotential_any(pot, reg, cand, neigAdd) ==
    pot \o SelectSeq(cand, LAMBDA i : i \notin Range(pot) /\ i \notin Range(reg))

\* potential.extend([i for i in w.neighbors[neigAdd] if i not in potential
\*                   and i not in region and i in candidates])
ExtendPotential(pot, reg, cand, neigAdd) ==
    pot \o SelectSeq(Neighbors(neigAdd),
                     LAMBDA i : i \notin Range(pot) /\ i \notin Range(reg)
                                /\ i \in Range(cand))

\* `if len(region) in cards`, after cards.append(test_card)
SizeMatches(cs, reg) == Len(reg) \in Range(cs)

\* a variant that uses up the target size instead of the matching one
RescueCards_target(cs, reg) == SubSeq(cs, 1, Len(cs) - 1)

\* cards.remove(len(region)): the matching pending size is used up
RescueCards(cs, reg) == ListRemove(cs, Len(reg))

\* a variant that puts the target size back in front
PushBack_front(cs, tc) == <<tc>> \o cs

\* cards.append(test_card): the target size goes back to the end of cards
PushBack(cs, tc) == Append(cs, tc)

\* a variant that puts the seed back where it was taken
ReturnSeed_front(cand, sd) == <<sd>> \o cand

\* candidates.append(seed): a rejected seed goes to the back of the queue
ReturnSeed(cand, sd) == Append(cand, sd)

\* a variant that does not count the rejection
CountReject_same(st) == st

\* seed_test += 1
CountReject(st) == st + 1

\* while building and len(region) < test_card: add a neighbor, or stall
GrowLoop ==
    /\ pc = "grow"
    /\ IF building /\ Len(region) < test_card
       THEN IF potential # <<>>
            THEN \E neigID \in random_randint(0, Len(potential) - 1) :
                   LET neigAdd == potential[neigID + 1]
                       pot1 == PopAt(potential, neigID + 1)
                       reg1 == Append(region, neigAdd)
                   IN  /\ region' = reg1
                       /\ potential' = ExtendPotential(pot1, reg1, candidates, neigAdd)
                       /\ idxDrawn' = TRUE
                       /\ pc' = "grow"
                       /\ UNCHANGED <<building, cards, candidates, seed_test, rescued>>
            ELSE LET cards1 == PushBack(cards, test_card)
                 IN  /\ building' = FALSE
                     /\ IF SizeMatches(cards1, region)
                        THEN /\ cards' = RescueCards(cards1, region)
                             /\ rescued' = rescued \cup {Len(regions) + 1}
                             /\ UNCHANGED <<candidates, region, seed_test>>
                        ELSE /\ cards' = cards1
                             /\ candidates' = ReturnSeed(candidates, seed)
                             /\ region' = <<>>
                             /\ seed_test' = CountReject(seed_test)
                             /\ UNCHANGED rescued
                     /\ pc' = "grow"
                     /\ UNCHANGED <<potential, idxDrawn>>
       ELSE /\ pc' = "accept"
            /\ UNCHANGED <<building, cards, candidates, region, potential,
                           seed_test, idxDrawn, rescued>>
    /\ UNCHANGED <<inputVars, batchVars, selfVars, planVars, iter, regions, seed,
                   test_card, raised, permDraws, intDrawn, attempts, abandoned>>

\* a variant that leaves the members of the region among the candidates
RemoveMembers_none(cand, reg) == cand

\* for i in region: if i in candidates: candidates.remove(i)
RECURSIVE RemoveMembers(_, _)
RemoveMembers(cand, reg) ==
    IF reg = <<>> THEN cand
    ELSE RemoveMembers(IF reg[1] \in Range(cand) THEN ListRemove(cand, reg[1])
                       ELSE cand, Tail(reg))

\* if region: take its members out of candidates, regions.append(region)
AcceptRegion ==
    /\ pc = "accept"
    /\ IF region # <<>>
       THEN /\ candidates' = RemoveMembers(candidates, region)
            /\ regions' = Append(regions, region)
            /\ seed_test' = 0
       ELSE UNCHANGED <<candidates, regions, seed_test>>
    /\ pc' = "inner"
    /\ UNCHANGED <<inputVars, batchVars, selfVars, planVars, iter, cards, building,
                   seed, region, potential, test_card, raised, histVars>>

\* a variant that is content with one region less
AttemptFailed_short(regs, k) == Len(regs) < k - 1

\* `if len(regions) < num_regions`
AttemptFailed(regs, k) == Len(regs) < k

\* a variant that keeps what the failed attempt had accepted
RetryRegions_keep(regs) == regs

\* `regions = []` of the failing branch
RetryRegions(regs) == <<>>

\* a variant that leaves the attempt counter as it is after a success
StopIter_same(it, mx) == it

\* `iter = maxiter` of the succeeding branch: the outer loop ends
StopIter(it, mx) == mx

\* a failed attempt reshuffles self.ids and retries, a complete one is feasible
AttemptEnd ==
    /\ pc = "attempt_end"
    /\ IF AttemptFailed(regions, K)
       THEN /\ \E p \in np_random_permutation(ids) : ids' = p
            /\ abandoned' = IF iter + 1 < maxiter THEN <<>> ELSE regions
            /\ regions' = RetryRegions(regions)
            /\ iter' = iter + 1
            /\ permDraws' = permDraws + 1
            /\ rescued' = {}
            /\ UNCHANGED feasible
       ELSE /\ feasible' = TRUE
            /\ iter' = StopIter(iter, maxiter)
            /\ UNCHANGED <<ids, regions, permDraws, rescued, abandoned>>
    /\ pc' = "outer"
    /\ UNCHANGED <<inputVars, batchVars, n, self_regions, planVars, cards,
                   candidates, seed_test, building, seed, region, potential,
                   test_card, raised, intDrawn, idxDrawn, attempts>>

\* the constructor returns: the instance joins solutions, the locals are gone
TrialResult == [obj |-> Len(solutions) + 1, feasible |-> feasible,
                regions |-> self_regions]

Return ==
    /\ pc = "return"
    /\ solutions' = Append(solutions, TrialResult)
    /\ K' = 0 /\ cards_arg' = <<>> /\ break_set' = {} /\ region_breaks' = <<>>
    /\ ret' = "none"
    /\ iter' = 0 /\ regions' = <<>> /\ cards' = <<>> /\ candidates' = <<>>
    /\ seed_test' = 0 /\ building' = FALSE /\ seed' = 0 /\ region' = <<>>
    /\ potential' = <<>> /\ test_card' = 0
    /\ pc' = "batch"
    /\ UNCHANGED <<inputVars, solutions_feas, fi, selfVars, raised, histVars>>

Next ==
    \/ BatchLoop
    \/ BatchFilter
    \/ RegionInit
    \/ Validate
    \/ Dispatch
    \/ GetRegionBreaks
    \/ GetCards
    \/ BuildNoncontig
    \/ ContigEnter
    \/ OuterLoop
    \/ InnerLoop
    \/ GrowLoop
    \/ AcceptRegion
    \/ AttemptEnd
    \/ Return

Spec == Init /\ [][Next]_vars

SpecBatch == InitBatch /\ [][Next]_vars

\* calls whose termination is followed: every call on two areas, and on the
\* universe one area smaller than the largest every call with a contiguity
\* searched with the full maxiter
LiveInputs ==
    InputsFor(2)
    \cup {inp \in InputsFor(MaxN - 1) :
             truthy_obj(inp.contiguity) /\ inp.maxiter = MaxIter}

InitLive == \E inp \in LiveInputs : Start(inp, 1)

\* one Random_Region call that keeps running: the interpreter executes the
\* next statement whenever there is one
SpecLive == InitLive /\ [][Next]_vars /\ WF_vars(Next)

(***************************************************************************)
(* Properties.                                                             *)
(***************************************************************************)
\* the constructor is about to return self
Returned == pc = "return"

\* the positions inside build_contig_regions, after its first three lines
InContig == pc \in {"outer", "inner", "grow", "accept", "attempt_end"}

RECURSIVE Flatten(_)
Flatten(regs) == IF regs = <<>> THEN <<>> ELSE regs[1] \o Flatten(Tail(regs))

Sizes(regs) == [i \in 1..Len(regs) |-> Len(regs[i])]

\* every area of the universe occurs exactly once over all the regions
IsExactCover(regs, universe) ==
    LET flat == Flatten(regs)
    IN  /\ Len(flat) = Len(universe)
        /\ Range(flat) = Range(universe)
        /\ \A i, j \in 1..Len(flat) : flat[i] = flat[j] => i = j

\* the areas reachable from the areas of `from` by edges inside `within`
RECURSIVE Reach(_, _)
Reach(from, within) ==
    LET more == {b \in within : \E a \in from : b \in Range(Neighbors(a))}
    IN  IF more \subseteq from THEN from ELSE Reach(from \cup more, within)

IsConnected(reg) ==
    reg # <<>> /\ \A a \in Range(reg) : Reach({a}, Range(reg)) = Range(reg)

\* C1: a feasible trial, from either builder, returns regions that are
\* pairwise disjoint, without duplicates, and cover area_ids exactly once.
C1_ExactCover ==
    (Returned /\ feasible) => IsExactCover(self_regions, area_ids)

\* a feasible contiguity-constrained partition found after a failed attempt
C1_Witness ==
    /\ Returned /\ feasible /\ truthy_obj(contiguity)
    /\ attempts >= 2 /\ Len(self_regions) >= 2
    /\ \E i \in 1..Len(self_regions) : Len(self_regions[i]) >= 2

\* C2: with contiguity, every region of a feasible trial is connected under
\* the neighbor relation by edges between its own areas, whether it reached
\* its target size or was accepted at a stalled size.
C2_Connected ==
    (Returned /\ feasible /\ truthy_obj(contiguity))
        => \A i \in 1..Len(self_regions) : IsConnected(self_regions[i])

\* a feasible trial with a region of two or more areas accepted at a stalled size
C2_Witness ==
    /\ Returned /\ feasible /\ truthy_obj(contiguity)
    /\ \E i \in rescued : Len(self_regions[i]) >= 2

\* C3: with cardinality, the sizes of the regions of a feasible trial are the
\* requested sizes as a multiset, also after a size substitution.
C3_SizesMatch ==
    (Returned /\ feasible /\ truthy_list(cardinality))
        => ListSort(Sizes(self_regions)) = ListSort(cardinality[1])

\* a feasible contiguity-constrained trial with a substituted region whose
\* sizes come in another order than requested
C3_Witness ==
    /\ Returned /\ feasible /\ truthy_list(cardinality) /\ truthy_obj(contiguity)
    /\ rescued # {}
    /\ Sizes(self_regions) # cardinality[1]

\* C4: a feasible trial has exactly the resolved number of regions (the given
\* num_regions, else len(cardinality), else the drawn count); inside
\* build_contig_regions len(regions) never exceeds it, and feasible is True
\* only once len(regions) has reached it.
C4_RegionCount ==
    /\ (Returned /\ feasible) =>
          IF truthy_num(num_regions) THEN Len(self_regions) = num_regions[1]
          ELSE IF truthy_list(cardinality)
               THEN Len(self_regions) = Len(cardinality[1])
               ELSE Len(self_regions) = K /\ K \in 2..n
    /\ InContig => Len(regions) <= K
    /\ (InContig /\ feasible) => Len(regions) = K

\* build_contig_regions has just marked a trial of three regions feasible
C4_Witness ==
    /\ pc = "outer" /\ feasible /\ Len(regions) = K /\ K >= 3
    /\ truthy_num(num_regions) /\ ~truthy_list(cardinality)

\* the three inconsistencies of the arguments
SumMismatch == truthy_list(cardinality) /\ sum(cardinality[1]) # Len(area_ids)

OrderMismatch == truthy_obj(contiguity) /\ contiguity[1].id_order # area_ids

CountMismatch ==
    /\ truthy_num(num_regions) /\ truthy_list(cardinality)
    /\ num_regions[1] # Len(cardinality[1])

ValidationMessages ==
    {"number of areas does not match cardinality",
     "order of area_ids must match order in contiguity",
     "number of regions does not match cardinality"}

C6_NoDrawBeforeMismatch ==
    raised = "number of areas does not match cardinality"
        => permDraws = 0 /\ ~intDrawn /\ ~idxDrawn

EmptyGraph ==
    /\ truthy_obj(contiguity)
    /\ \A a \in DOMAIN contiguity[1].neighbors : Neighbors(a) = <<>>

\* C7: with consistent arguments, a contiguity whose neighbor lists are all
\* empty and fewer regions than areas, the constructor never raises and
\* returns feasible = False after exactly maxiter attempts.
C7_InfeasibleNotError ==
    (EmptyGraph /\ ~(SumMismatch \/ OrderMismatch \/ CountMismatch)) =>
        /\ pc # "raised" /\ raised = "none"
        /\ (Returned /\ K < n) => (~feasible /\ attempts = maxiter)

\* two attempts on an edgeless universe with drawn sizes, each abandoned after
\* it had accepted a single-area region
C7_Witness ==
    /\ EmptyGraph /\ Returned /\ K < n /\ ~feasible
    /\ ~truthy_list(cardinality)
    /\ attempts = maxiter /\ maxiter >= 2 /\ abandoned # <<>>

\* C8 as stated: an infeasible trial returns the regions its last attempt had
\* accepted when it was abandoned.
C8_LastAttemptKept ==
    (Returned /\ truthy_obj(contiguity) /\ ~feasible) => self_regions = abandoned

\* C8 as amended: when build_contig_regions has used up maxiter attempts
\* without reaching K regions the trial is infeasible and the returned
\* regions is the empty list; nothing of the last attempt is kept.
C8_EmptyOnFailure ==
    (Returned /\ truthy_obj(contiguity)) =>
        /\ ~feasible <=> Len(self_regions) < K
        /\ ~feasible => (self_regions = <<>> /\ attempts = maxiter)

\* an infeasible trial whose last attempt had accepted a region
C8_Witness ==
    /\ Returned /\ truthy_obj(contiguity) /\ ~feasible
    /\ maxiter >= 1 /\ abandoned # <<>>

\* C9: when Random_Regions is done, solutions holds one instance per
\* permutation in the order of construction, and solutions_feas is the
\* subsequence of the feasible ones, in the same order.
C9_Batch ==
    pc = "done" =>
        /\ Len(solutions) = permutations
        /\ \A i \in 1..Len(solutions) : solutions[i].obj = i
        /\ solutions_feas = SelectSeq(solutions, LAMBDA r : r.feasible)

\* a finished batch whose first instance is infeasible and whose second is
\* feasible
C9_Witness ==
    /\ pc = "done" /\ Len(solutions) >= 2
    /\ ~solutions[1].feasible /\ solutions[2].feasible
    /\ Len(solutions_feas) < Len(solutions)

\* get_region_breaks has just returned region_breaks to its caller
BreaksReturned == pc \in {"get_cards", "noncontig"} /\ ret = pc

\* C11: whenever get_region_breaks(num_regions) is called it returns: while
\* the sampling loop still needs a value there is one it has not drawn yet;
\* and the list it returns has exactly num_regions-1 distinct integers of
\* 1..N-1 in ascending order.
C11_BreaksReturn ==
    /\ (pc = "breaks" /\ Cardinality(break_set) < K - 1)
          => break_set # 1..(n - 1)
    /\ BreaksReturned =>
          /\ Len(region_breaks) = K - 1
          /\ \A i \in 1..Len(region_breaks) : region_breaks[i] \in 1..(n - 1)
          /\ \A i \in 1..(Len(region_breaks) - 1) :
                region_breaks[i] < region_breaks[i + 1]

\* the constructor has passed validation and dispatch
AfterDispatch ==
    pc \in {"breaks", "get_cards", "noncontig", "contig", "return"} \/ InContig

\* C12: with a cardinality c, passing num_regions = len(c) as well changes
\* nothing: validation and dispatch come out the same as with c alone, the
\* call runs the same builder on the same count and sizes (all that the rest
\* of the call reads of the three arguments), and without contiguity the
\* result is the permutation drawn cut at the running sums of c.
C12_CountWithCardinality ==
    (truthy_list(cardinality) /\ num_regions \in {None, Some(Len(cardinality[1]))}) =>
        LET c == cardinality[1]
            both == DispatchMode(Some(Len(c)), cardinality, contiguity)
            alone == DispatchMode(None, cardinality, contiguity)
        IN  /\ both = alone
            /\ ValidationError(area_ids, Some(Len(c)), cardinality, contiguity, Len(area_ids))
                 = ValidationError(area_ids, None, cardinality, contiguity, Len(area_ids))
            /\ AfterDispatch =>
                  /\ K = alone.K /\ cards_arg = alone.cards_arg
                  /\ region_breaks = alone.region_breaks /\ ret = alone.ret
                  /\ \/ pc = alone.next
                     \/ pc = "return"
                     \/ alone.next = "contig" /\ InContig
            /\ (Returned /\ ~truthy_obj(contiguity)) =>
                  /\ feasible
                  /\ self_regions = build_noncontig_regions(ids, cards2breaks(c), 0)

\* a feasible trial with contiguity for which both num_regions and
\* cardinality were passed, two regions or more
C12_Witness ==
    /\ Returned /\ feasible /\ truthy_obj(contiguity)
    /\ truthy_list(cardinality) /\ num_regions = Some(Len(cardinality[1]))
    /\ Len(self_regions) >= 2 /\ idxDrawn

\* C13: build_contig_regions terminates whatever the random choices: the
\* rejections counted by seed_test never exceed the regions still needed, a
\* region under growth never exceeds its target size, and every call that
\* enters the builder reaches the return of the constructor.
C13_Terminates ==
    /\ [](pc \in {"inner", "grow", "accept"} =>
            /\ seed_test <= K - Len(regions)
            /\ Len(regions) <= K)
    /\ [](pc = "grow" => Len(region) <= test_card)
    /\ (pc = "contig") ~> Returned

\* an infeasible trial that used up two attempts, with random growth choices
\* and a rejected seed in the last one
C13_Witness ==
    /\ Returned /\ truthy_obj(contiguity) /\ ~feasible
    /\ attempts = maxiter /\ maxiter >= 2 /\ idxDrawn /\ seed_test >= 1

\* inside an attempt of build_contig_regions
InAttempt == pc \in {"inner", "grow", "accept", "attempt_end"}

\* C14: the outer loop starts at most maxiter attempts; every failed attempt
\* adds one to iter and draws one permutation (permDraws counts the draw of
\* the constructor and the reshuffles); once an attempt has K regions the
\* trial is feasible, iter is maxiter, and no attempt or reshuffle follows.
C14_OuterLoop ==
    (InContig \/ (Returned /\ truthy_obj(contiguity))) =>
        /\ attempts <= maxiter
        /\ (~feasible /\ InAttempt) => (iter = attempts - 1 /\ permDraws = attempts)
        /\ (~feasible /\ ~InAttempt) => (iter = attempts /\ permDraws = attempts + 1)
        /\ feasible =>
              /\ ~InAttempt
              /\ iter = maxiter /\ attempts >= 1 /\ permDraws = attempts
              /\ Len(regions) = K

\* the first attempt succeeded although maxiter allowed another one
C14_Witness ==
    /\ Returned /\ truthy_obj(contiguity) /\ feasible
    /\ attempts = 1 /\ attempts < maxiter /\ permDraws = 1 /\ idxDrawn

\* growth from seed c takes in every candidate connected to c through
\* candidates, so c can be grown to the largest pending size when that many
\* are connected to it, and otherwise stalls at their number
CanGrow(c) ==
    LET size == Cardinality(Reach({c}, Range(candidates)))
    IN  \/ \A k \in Range(cards) : size >= k
        \/ size \in Range(cards)

\* C15: the inner loop of an attempt is left with candidates still in the
\* queue only when none of them, taken as seed, could be grown to the largest
\* pending size or would stall at a pending size.
C15_GivenUpOnlyWhenStuck ==
    (pc = "attempt_end" /\ candidates # <<>>)
        => \A c \in Range(candidates) : ~CanGrow(c)

IsAscending(s) == \A i \in 1..(Len(s) - 1) : s[i] <= s[i + 1]

\* C16: throughout an attempt cards is in ascending order (after the pops,
\* after a stalled target is put back, after a rescue removes a matching
\* value), so the target popped for a seed is the largest pending size.
C16_LargestFirst ==
    InAttempt =>
        /\ IsAscending(cards)
        /\ (pc = "grow" /\ building) => \A k \in Range(cards) : k <= test_card

\* a region has just been accepted at a stalled size, and two different
\* sizes are still pending
C16_Witness ==
    /\ pc = "grow" /\ ~building /\ region # <<>>
    /\ (Len(regions) + 1) \in rescued
    /\ Len(cards) >= 2 /\ cards[1] < cards[Len(cards)]

\* the step of the growth loop that rejects a stalled region
RejectStep == pc = "grow" /\ building /\ ~building' /\ region' = <<>>

\* C17: rejecting a stalled region only rotates the queue: the seed goes to
\* the back of candidates, seed_test grows by one, the accepted regions are
\* untouched, cards holds again the sizes it held before the seed was drawn
\* (the pending ones and the target), candidates holds again the seed and
\* everything it held, the areas tried for the region among them.
C17_RejectFrame ==
    [][RejectStep =>
          /\ region # <<>> /\ region[1] = seed /\ seed \notin Range(candidates)
          /\ candidates' = Append(candidates, seed)
          /\ seed_test' = seed_test + 1
          /\ regions' = regions
          /\ ListSort(cards') = ListSort(Append(cards, test_card))
          /\ Range(candidates') = Range(candidates) \cup {seed}
          /\ Range(region) \subseteq Range(candidates')
          /\ Len(candidates') = Len(candidates) + 1]_vars

\* a region that had taken in a neighbor of its seed has just been rejected
C17_Witness ==
    /\ pc = "grow" /\ ~building /\ region = <<>> /\ seed_test >= 1
    /\ candidates # <<>> /\ candidates[Len(candidates)] = seed
    /\ \E a \in Range(Neighbors(seed)) : a \in Range(candidates)

\* the sizes handed to build_contig_regions are positive and sum to N
PositiveSizes == (\A i \in 1..Len(cards_arg) : cards_arg[i] >= 1) /\ sum(cards_arg) = n

\* C18: with positive sizes summing to N, whenever the condition of the inner
\* loop is evaluated the pending sizes and the accepted regions number K
\* together, the pending sizes sum to the number of candidates, and the
\* candidates with the members of the accepted regions cover the universe
\* exactly once; so cards is not empty when a seed is drawn, and cards.pop()
\* never fails.
C18_InnerLoopInvariant ==
    /\ (pc = "inner" /\ PositiveSizes) =>
          /\ Len(cards) + Len(regions) = K
          /\ sum(cards) = Len(candidates)
          /\ IsExactCover(Append(regions, candidates), area_ids)
          /\ (candidates # <<>> /\ seed_test < K - Len(regions)) => cards # <<>>
    /\ raised # "pop from empty list"

\* the loop condition is evaluated after a region was accepted at a stalled
\* size and the next seed was rejected
C18_Witness ==
    /\ pc = "inner" /\ PositiveSizes
    /\ rescued # {} /\ Len(regions) >= 1 /\ seed_test >= 1
    /\ candidates # <<>> /\ cards # <<>>

\* C19: a trial never changes the caller's area_ids and cardinality: at
\* every point of every call, and so when the constructor returns (feasible
\* or not, after any number of attempts), both hold what they held when they
\* were passed, element by element in the same order; the next trial of a
\* batch is given the same constraints, and nothing is left in candidates,
\* cards or regions when a constructor is entered.
C19_InputsKept ==
    /\ area_ids = given.area_ids
    /\ cardinality = given.cardinality
    /\ pc = "init" => (candidates = <<>> /\ cards = <<>> /\ regions = <<>>)

\* an infeasible trial has returned after two attempts on a cardinality
\* given out of order, which the attempts worked on in sorted order
C19_Witness ==
    /\ Returned /\ truthy_obj(contiguity) /\ truthy_list(cardinality)
    /\ ~IsAscending(cardinality[1]) /\ IsAscending(cards) /\ Len(cards) >= 2
    /\ attempts >= 2 /\ ~feasible

\* get_cards has just returned the sizes to the constructor
CardsReturned == pc = "contig" /\ ret = "get_cards"

\* none of the three constraints was passed
Unconstrained ==
    ~truthy_num(num_regions) /\ ~truthy_list(cardinality) /\ ~truthy_obj(contiguity)

\* C20: without a cardinality, get_cards(num_regions) with num_regions in
\* 1..N returns num_regions sizes, each at least 1, that sum to N; a count
\* that was not passed is drawn from 2..N, and an unconstrained trial returns
\* between 2 and N regions, none of them empty.
C20_DerivedSizes ==
    /\ (CardsReturned /\ K \in 1..n) =>
          /\ Len(cards_arg) = K
          /\ \A i \in 1..Len(cards_arg) : cards_arg[i] >= 1
          /\ sum(cards_arg) = n
    /\ (AfterDispatch /\ ~truthy_num(num_regions) /\ ~truthy_list(cardinality))
          => K \in 2..n
    /\ (Returned /\ Unconstrained) =>
          /\ Len(self_regions) \in 2..n
          /\ \A i \in 1..Len(self_regions) : self_regions[i] # <<>>

\* get_cards has returned three sizes or more for a given count, not all of
\* them 1
C20_Witness ==
    /\ CardsReturned /\ truthy_num(num_regions) /\ K >= 3
    /\ \E i \in 1..Len(cards_arg) : cards_arg[i] >= 2

====
